---- MODULE Spec2Model ----
(***************************************************************************)
(* Python Dependency Inspector: the "find requiring libraries" operator    *)
(* (DEPENDENCY_INSPECTOR_OT_Find.execute) and the search state it acts on  *)
(* (DI_SearchProperties, enable_version_search).                           *)
(*                                                                         *)
(* Strings are sequences of one-character strings, so that strip(),        *)
(* lower(), replace(), parsing and the lexicographic order used by         *)
(* sorted() are computed character by character.                           *)
(***************************************************************************)
EXTENDS Integers, Sequences, FiniteSets, TLC

(***************************************************************************)
(* Characters and Python's str operations                                  *)
(***************************************************************************)

\* The characters used, listed in increasing code point order.
Ascii ==
    << " ", "!", ",", "-", ".",
       "0", "1", "2", "3", "4", "5", "6", "7", "8", "9",
       "<", "=", ">",
       "A", "B", "C", "D", "E", "F", "G", "H", "I", "J", "K", "L", "M",
       "N", "O", "P", "Q", "R", "S", "T", "U", "V", "W", "X", "Y", "Z",
       "_",
       "a", "b", "c", "d", "e", "f", "g", "h", "i", "j", "k", "l", "m",
       "n", "o", "p", "q", "r", "s", "t", "u", "v", "w", "x", "y", "z" >>

Char == { Ascii[i] : i \in 1..Len(Ascii) }

\* Position of a character in code point order.
Ord == [ c \in Char |-> CHOOSE i \in 1..Len(Ascii) : Ascii[i] = c ]

UpperChars == { Ascii[i] : i \in 19..44 }
LowerChars == { Ascii[i] : i \in 46..71 }
DigitChars == { Ascii[i] : i \in 6..15 }

\* str.lower() on one character: 'A'..'Z' map to 'a'..'z'.
LowerChar == [ c \in Char |-> IF c \in UpperChars THEN Ascii[Ord[c] + 27] ELSE c ]

\* str.lower()
Lower(s) == [ i \in 1..Len(s) |-> LowerChar[s[i]] ]

\* str.replace("-", "_")
ReplaceDash(s) == [ i \in 1..Len(s) |-> IF s[i] = "-" THEN "_" ELSE s[i] ]

IsSpace(c) == c = " "

\* str.lstrip(), str.rstrip(), str.strip()
RECURSIVE LStrip(_)
LStrip(s) == IF s # << >> /\ IsSpace(Head(s)) THEN LStrip(Tail(s)) ELSE s

RECURSIVE RStrip(_)
RStrip(s) ==
    IF s # << >> /\ IsSpace(s[Len(s)]) THEN RStrip(SubSeq(s, 1, Len(s) - 1)) ELSE s

Strip(s) == RStrip(LStrip(s))

\* Python's < on str: first differing code point decides, a proper prefix is smaller.
RECURSIVE StrLess(_, _)
StrLess(s, t) ==
    IF t = << >> THEN FALSE
    ELSE IF s = << >> THEN TRUE
    ELSE IF Head(s) # Head(t) THEN Ord[Head(s)] < Ord[Head(t)]
    ELSE StrLess(Tail(s), Tail(t))

\* Length of the longest prefix of s whose characters are all in set cs.
RECURSIVE PrefixLen(_, _)
PrefixLen(s, cs) ==
    IF s # << >> /\ Head(s) \in cs THEN 1 + PrefixLen(Tail(s), cs) ELSE 0

\* s without its first n characters.
Drop(s, n) == SubSeq(s, n + 1, Len(s))

\* str.split(","): the pieces between commas.
RECURSIVE SplitComma(_)
SplitComma(s) ==
    LET n == PrefixLen(s, Char \ {","})
    IN  IF n = Len(s) THEN << s >>
        ELSE << SubSeq(s, 1, n) >> \o SplitComma(Drop(s, n + 1))

(***************************************************************************)
(* The packaging library as the operator uses it: Version, Requirement,    *)
(* SpecifierSet.contains and str(SpecifierSet).  The grammar covered is    *)
(* release numbers with an optional "a" pre-release segment, and           *)
(* requirement strings of the form  name [op version {, op version}].      *)
(***************************************************************************)

DigitVal(c) == Ord[c] - Ord["0"]

\* int() of a string of digits.
RECURSIVE Num(_)
Num(s) ==
    IF s = << >> THEN 0
    ELSE 10 * Num(SubSeq(s, 1, Len(s) - 1)) + DigitVal(s[Len(s)])

\* The release segment  N(.N)*  at the front of s, and what follows it.
RECURSIVE ParseRelease(_)
ParseRelease(s) ==
    LET n == PrefixLen(s, DigitChars)
        r == Drop(s, n)
    IN  IF n = 0 THEN [ok |-> FALSE, release |-> << >>, rest |-> s]
        ELSE IF Len(r) >= 2 /\ r[1] = "." /\ r[2] \in DigitChars
             THEN LET more == ParseRelease(Tail(r))
                  IN  [ok |-> TRUE,
                       release |-> << Num(SubSeq(s, 1, n)) >> \o more.release,
                       rest |-> more.rest]
             ELSE [ok |-> TRUE, release |-> << Num(SubSeq(s, 1, n)) >>, rest |-> r]

VersionSeparators == {".", "-", "_"}

\* Version(s): << >> when InvalidVersion is raised, else << v >> with
\* v.release the release numbers and v.pre = << >> for a final release or
\* << n >> for the pre-release "a n".
Version(s) ==
    LET t  == Strip(s)
        u  == IF t # << >> /\ Head(t) \in {"v", "V"} THEN Tail(t) ELSE t
        p  == ParseRelease(u)
        r1 == IF p.rest # << >> /\ Head(p.rest) \in VersionSeparators
              THEN Tail(p.rest) ELSE p.rest
        r2 == Tail(r1)
        r3 == IF r2 # << >> /\ Head(r2) \in VersionSeparators THEN Tail(r2) ELSE r2
    IN  IF ~p.ok THEN << >>
        ELSE IF p.rest = << >> THEN << [release |-> p.release, pre |-> << >>] >>
        ELSE IF r1 = << >> \/ Head(r1) \notin {"a", "A"} THEN << >>
        ELSE IF PrefixLen(r3, DigitChars) # Len(r3) THEN << >>
        ELSE << [release |-> p.release, pre |-> << Num(r3) >>] >>

\* A release with its trailing zeros removed (1.0 and 1 are the same version).
RECURSIVE TrimZeros(_)
TrimZeros(r) ==
    IF r # << >> /\ r[Len(r)] = 0 THEN TrimZeros(SubSeq(r, 1, Len(r) - 1)) ELSE r

\* Tuple comparison of two sequences of numbers: -1, 0 or 1.
RECURSIVE SeqCmp(_, _)
SeqCmp(a, b) ==
    IF a = << >> /\ b = << >> THEN 0
    ELSE IF a = << >> THEN -1
    ELSE IF b = << >> THEN 1
    ELSE IF Head(a) < Head(b) THEN -1
    ELSE IF Head(a) > Head(b) THEN 1
    ELSE SeqCmp(Tail(a), Tail(b))

\* Order of two versions: release first, then pre-release before final.
CmpVersion(v, w) ==
    LET c == SeqCmp(TrimZeros(v.release), TrimZeros(w.release))
    IN  IF c # 0 THEN c
        ELSE IF v.pre = << >> /\ w.pre = << >> THEN 0
        ELSE IF v.pre = << >> THEN 1
        ELSE IF w.pre = << >> THEN -1
        ELSE SeqCmp(v.pre, w.pre)

OpChars == {"<", ">", "=", "!"}

Operators ==
    { << "<" >>, << "<", "=" >>, << ">" >>, << ">", "=" >>,
      << "=", "=" >>, << "!", "=" >> }

\* One clause "op version" of a specifier: << >> when malformed,
\* else << [op, vtext] >>.
ParseClause(c) ==
    LET t  == Strip(c)
        n  == PrefixLen(t, OpChars)
        op == SubSeq(t, 1, n)
        vt == Strip(Drop(t, n))
    IN  IF op \in Operators /\ Version(vt) # << >>
        THEN << [op |-> op, vtext |-> vt] >>
        ELSE << >>

AlnumChars == UpperChars \cup LowerChars \cup DigitChars
NameChars  == AlnumChars \cup {"-", "_", "."}

\* Requirement(req_string): << >> when InvalidRequirement is raised, else
\* << [name, specs] >> with specs the set of clauses of the specifier (the
\* strings of the catalogue repeat no clause under another spelling).
Requirement(req_string) ==
    LET s       == Strip(req_string)
        n       == PrefixLen(s, NameChars)
        rest    == Strip(Drop(s, n))
        clauses == IF rest = << >> THEN << >> ELSE SplitComma(rest)
    IN  IF n = 0 \/ s[1] \notin AlnumChars \/ s[n] \notin AlnumChars THEN << >>
        ELSE IF \E i \in 1..Len(clauses) : ParseClause(clauses[i]) = << >> THEN << >>
        ELSE << [name  |-> SubSeq(s, 1, n),
                 specs |-> { ParseClause(clauses[i])[1] : i \in 1..Len(clauses) }] >>

\* Specifier.contains(v) for one clause, pre-releases allowed.
ClauseContains(cl, v) ==
    LET w == Version(cl.vtext)[1]
        c == CmpVersion(v, w)
    IN  CASE cl.op = << ">", "=" >> -> c >= 0
          [] cl.op = << "<", "=" >> -> c <= 0
          [] cl.op = << "=", "=" >> -> c = 0
          [] cl.op = << "!", "=" >> -> c # 0
          [] cl.op = << ">" >>      -> c > 0
          [] cl.op = << "<" >>      ->
                /\ c < 0
                /\ ~(w.pre = << >> /\ v.pre # << >>
                     /\ SeqCmp(TrimZeros(v.release), TrimZeros(w.release)) = 0)

\* SpecifierSet.contains(v, prereleases=...): every clause contains v; a
\* pre-release v is refused outright unless pre-releases are allowed.
Contains(specs, v, prereleases) ==
    /\ prereleases \/ v.pre = << >>
    /\ \A cl \in specs : ClauseContains(cl, v)

\* The smallest string of a non-empty set, in str order.
MinStr(strs) == CHOOSE s \in strs : \A t \in strs : t = s \/ StrLess(s, t)

\* ",".join(sorted(strs))
RECURSIVE JoinSorted(_)
JoinSorted(strs) ==
    IF strs = {} THEN << >>
    ELSE LET m == MinStr(strs)
         IN  IF strs = {m} THEN m ELSE m \o << "," >> \o JoinSorted(strs \ {m})

\* str(req.specifier)
SpecifierStr(specs) == JoinSorted({ cl.op \o cl.vtext : cl \in specs })

(***************************************************************************)
(* The installed environment                                               *)
(***************************************************************************)

\* An installed distribution: metadata['Name'] and requires (an absent
\* requires, None, and an empty one are both << >>: "not dist.requires").
Dist(name, requires) == [name |-> name, requires |-> requires]

Zeta  == Dist(<< "z", "e", "t", "a" >>, << << "M", "y", "-", "P", "a", "c", "k", "a", "g", "e" >> >>)
Alpha == Dist(<< "a", "l", "p", "h", "a" >>, << << "m", "y", "_", "p", "a", "c", "k", "a", "g", "e", ">", "=", "1", ".", "0" >>,
                          << "M", "Y", "_", "P", "A", "C", "K", "A", "G", "E" >> >>)
Beta  == Dist(<< "b", "e", "t", "a" >>, << << "o", "t", "h", "e", "r", ">", "=", "2" >>,
                         << "!", "b", "a", "d" >>,
                         << "m", "y", "-", "p", "a", "c", "k", "a", "g", "e", "<", "2", ".", "0", ",", ">", "=", "1", ".", "0" >> >>)
Gamma == Dist(<< "G", "a", "m", "m", "a" >>, << >>)

\* The distributions an environment may hold.
Catalogue == { Zeta, Alpha, Beta, Gamma }

\* The largest number of installed distributions.
MaxDists == 2

\* distributions(): the installed distributions in enumeration order.
Environments ==
    { e \in UNION { [1..n -> Catalogue] : n \in 0..MaxDists } :
        \A i, j \in 1..Len(e) : i # j => e[i] # e[j] }

\* What the user may type into the package name field.
PackageInputs ==
    { << "u", "r", "l", "l", "i", "b", "3" >>,
      << >>,
      << " " >>,
      << "m", "y", "_", "p", "a", "c", "k", "a", "g", "e" >>,
      << " ", "M", "y", "-", "P", "a", "c", "k", "a", "g", "e", " " >>,
      << "m", "y", ".", "p", "a", "c", "k", "a", "g", "e" >>,
      << "o", "t", "h", "e", "r" >> }

\* What the user may type into the version field.
VersionInputs ==
    { << >>,
      << " " >>,
      << "1", ".", "5" >>,
      << " ", "3" >>,
      << "2", "a", "1" >>,
      << "n", "o", "t", "-", "a", "-", "v", "e", "r", "s", "i", "o", "n" >> }

(***************************************************************************)
(* State                                                                   *)
(***************************************************************************)

VARIABLES
    PACKAGING_LIB_AVAILABLE,  \* whether "import packaging" succeeded
    installed,                \* the environment distributions() enumerates
    target_package,           \* DI_SearchProperties.target_package
    target_version,           \* DI_SearchProperties.target_version
    enable_version_search,    \* preferences.enable_version_search
    results,                  \* DI_SearchProperties.results
    last_search_was_empty,    \* DI_SearchProperties.last_search_was_empty
    returned,                 \* what the last execute() returned, "NONE" before any call
    reported,                 \* the level of the report of the last execute()
    raised,                   \* the exception that left the last execute(), "NONE" if none
    prev_results,             \* results as they were when the last execute() began
    prev_empty                \* last_search_was_empty when the last execute() began

vars ==
    << PACKAGING_LIB_AVAILABLE, installed, target_package, target_version,
       enable_version_search, results, last_search_was_empty,
       returned, reported, raised, prev_results, prev_empty >>

\* A row of the result collection.
ResultItem(name, specifier) == [name |-> name, specifier |-> specifier]

\* The text shown for an unconstrained requirement.
AnyText == << "a", "n", "y" >>

Init ==
    /\ PACKAGING_LIB_AVAILABLE \in BOOLEAN
    /\ installed \in Environments
    /\ target_package = << "u", "r", "l", "l", "i", "b", "3" >>
    /\ target_version = << >>
    /\ enable_version_search = FALSE
    /\ results = << >>
    /\ last_search_was_empty = FALSE
    /\ returned = "NONE"
    /\ reported = "NONE"
    /\ raised = "NONE"
    /\ prev_results = << >>
    /\ prev_empty = FALSE

(***************************************************************************)
(* The user edits the search state                                         *)
(***************************************************************************)

\* No call of the operator is pending any more once the state is edited.
Forget ==
    /\ returned' = "NONE"
    /\ reported' = "NONE"
    /\ raised' = "NONE"
    /\ prev_results' = << >>
    /\ prev_empty' = FALSE

SetTargetPackage(s) ==
    /\ target_package' = s
    /\ Forget
    /\ UNCHANGED << PACKAGING_LIB_AVAILABLE, installed, target_version,
                    enable_version_search, results, last_search_was_empty >>

SetTargetVersion(s) ==
    /\ target_version' = s
    /\ Forget
    /\ UNCHANGED << PACKAGING_LIB_AVAILABLE, installed, target_package,
                    enable_version_search, results, last_search_was_empty >>

SetEnableVersionSearch(b) ==
    /\ enable_version_search' = b
    /\ Forget
    /\ UNCHANGED << PACKAGING_LIB_AVAILABLE, installed, target_package,
                    target_version, results, last_search_was_empty >>

(***************************************************************************)
(* DEPENDENCY_INSPECTOR_OT_Find.execute                                    *)
(***************************************************************************)

\* Mutation of TargetPkg: the name is lower-cased but not stripped.
TargetPkgNotStripped(s) == Lower(s)

\* target_pkg = search_props.target_package.strip().lower()
TargetPkg(s) == Lower(Strip(s))

\* target_ver_str = search_props.target_version.strip()
TargetVerStr(s) == Strip(s)

\* Whether execute() parses the version string at all.
ParsesVersion(enabled, ver_str, lib) == enabled /\ ver_str # << >> /\ lib

\* target_version_obj: << >> for None, else << v >>.
TargetVersionObj(enabled, ver_str, lib) ==
    IF ParsesVersion(enabled, ver_str, lib) THEN Version(ver_str) ELSE << >>

\* normalized_target = target_pkg.replace("-", "_")
NormalizedTarget(target_pkg) == ReplaceDash(target_pkg)

\* Mutation of NameMatches: "-" is not replaced in the requirement's name.
NameMatchesDashKept(req_name, normalized_target) ==
    Lower(req_name) = normalized_target

\* req.name.lower().replace("-", "_") == normalized_target
NameMatches(req_name, normalized_target) ==
    ReplaceDash(Lower(req_name)) = normalized_target

\* Mutation of VersionMatch: contains() is left to its default treatment of
\* pre-releases.
VersionMatchDefaultPrereleases(target_version_obj, specs) ==
    target_version_obj = << >> \/ Contains(specs, target_version_obj[1], FALSE)

\* version_match
VersionMatch(target_version_obj, specs) ==
    target_version_obj = << >> \/ Contains(specs, target_version_obj[1], TRUE)

\* str(req.specifier) or "any"
SpecifierText(specs) ==
    IF SpecifierStr(specs) = << >> THEN AnyText ELSE SpecifierStr(specs)

\* Mutation of ScanRequires: a string that does not parse ends the loop over
\* the distribution's requirement strings.
RECURSIVE ScanRequiresStopAtMalformed(_, _, _, _)
ScanRequiresStopAtMalformed(dist_name, requires, normalized_target, target_version_obj) ==
    IF requires = << >> THEN << >>
    ELSE LET req  == Requirement(Head(requires))
             rest == ScanRequiresStopAtMalformed(dist_name, Tail(requires),
                                                 normalized_target,
                                                 target_version_obj)
         IN  IF req = << >> THEN << >>
             ELSE IF /\ NameMatches(req[1].name, normalized_target)
                     /\ VersionMatch(target_version_obj, req[1].specs)
                  THEN << ResultItem(dist_name, SpecifierText(req[1].specs)) >> \o rest
                  ELSE rest

\* The inner loop over one distribution's requirement strings: the entries
\* appended to requiring_packages, in order.  A string that does not parse
\* is passed over.
RECURSIVE ScanRequires(_, _, _, _)
ScanRequires(dist_name, requires, normalized_target, target_version_obj) ==
    IF requires = << >> THEN << >>
    ELSE LET req  == Requirement(Head(requires))
             rest == ScanRequires(dist_name, Tail(requires),
                                  normalized_target, target_version_obj)
         IN  IF req = << >> THEN rest
             ELSE IF /\ NameMatches(req[1].name, normalized_target)
                     /\ VersionMatch(target_version_obj, req[1].specs)
                  THEN << ResultItem(dist_name, SpecifierText(req[1].specs)) >> \o rest
                  ELSE rest

\* The outer loop over distributions(): requiring_packages after the scan.
RECURSIVE ScanDists(_, _, _)
ScanDists(dists, normalized_target, target_version_obj) ==
    IF dists = << >> THEN << >>
    ELSE ScanRequires(Head(dists).name, Head(dists).requires,
                      normalized_target, target_version_obj)
         \o ScanDists(Tail(dists), normalized_target, target_version_obj)

\* Python's < on the tuples (name, spec).
ItemLess(a, b) ==
    IF a.name # b.name THEN StrLess(a.name, b.name)
    ELSE StrLess(a.specifier, b.specifier)

\* x put into the sorted sequence ss, after the items that are not greater.
RECURSIVE InsertItem(_, _)
InsertItem(x, ss) ==
    IF ss = << >> THEN << x >>
    ELSE IF ItemLess(x, Head(ss)) THEN << x >> \o ss
    ELSE << Head(ss) >> \o InsertItem(x, Tail(ss))

\* Mutation of Sorted: the matches are kept in scan order.
Unsorted(items) == items

\* sorted(requiring_packages)
RECURSIVE Sorted(_)
Sorted(items) ==
    IF items = << >> THEN << >>
    ELSE InsertItem(items[Len(items)], Sorted(SubSeq(items, 1, Len(items) - 1)))

\* Mutation of Clear: the collection keeps what it held.
ClearNothing(collection) == collection

\* search_props.results.clear()
Clear(collection) == << >>

\* Whether the scan meets a requirement string: with the packaging library
\* missing, Requirement is an unbound name and the first use raises NameError.
ScanNeedsRequirement(dists) == \E i \in 1..Len(dists) : dists[i].requires # << >>

\* return {'CANCELLED'} after self.report({level}, ...): nothing else is touched.
Cancelled(level) ==
    /\ returned' = "CANCELLED"
    /\ reported' = level
    /\ raised' = "NONE"
    /\ UNCHANGED << results, last_search_was_empty >>

\* An exception leaves execute() after the results were cleared.
Raised(exception) ==
    /\ returned' = "RAISED"
    /\ reported' = "NONE"
    /\ raised' = exception
    /\ results' = Clear(results)
    /\ last_search_was_empty' = FALSE

\* Mutation of Finished: the empty flag is never set.
FinishedFlagNotSet(requiring_packages) ==
    /\ returned' = "FINISHED"
    /\ reported' = "INFO"
    /\ raised' = "NONE"
    /\ results' = Clear(results) \o Sorted(requiring_packages)
    /\ last_search_was_empty' = FALSE

\* The scan ran to its end: the collection is filled from the sorted matches,
\* or the empty flag is set.
Finished(requiring_packages) ==
    /\ returned' = "FINISHED"
    /\ reported' = "INFO"
    /\ raised' = "NONE"
    /\ IF requiring_packages # << >>
       THEN /\ results' = Clear(results) \o Sorted(requiring_packages)
            /\ last_search_was_empty' = FALSE
       ELSE /\ results' = Clear(results)
            /\ last_search_was_empty' = TRUE

\* fault: reading the environment's metadata raises during the scan
\* (an exception other than InvalidRequirement and AttributeError).
Execute ==
    LET target_pkg         == TargetPkg(target_package)
        target_ver_str     == TargetVerStr(target_version)
        parses             == ParsesVersion(enable_version_search, target_ver_str,
                                            PACKAGING_LIB_AVAILABLE)
        target_version_obj == TargetVersionObj(enable_version_search, target_ver_str,
                                               PACKAGING_LIB_AVAILABLE)
    IN  /\ prev_results' = results
        /\ prev_empty' = last_search_was_empty
        /\ UNCHANGED << PACKAGING_LIB_AVAILABLE, installed, target_package,
                        target_version, enable_version_search >>
        /\ IF target_pkg = << >> THEN Cancelled("WARNING")
           ELSE IF parses /\ target_version_obj = << >> THEN Cancelled("ERROR")
           ELSE \E fault \in BOOLEAN :
                  IF fault THEN Raised("MetadataError")
                  ELSE IF ~PACKAGING_LIB_AVAILABLE /\ ScanNeedsRequirement(installed)
                       THEN Raised("NameError")
                  ELSE Finished(ScanDists(installed, NormalizedTarget(target_pkg),
                                          target_version_obj))

Next ==
    \/ \E s \in PackageInputs : SetTargetPackage(s)
    \/ \E s \in VersionInputs : SetTargetVersion(s)
    \/ \E b \in BOOLEAN : SetEnableVersionSearch(b)
    \/ Execute

Spec == Init /\ [][Next]_vars

(***************************************************************************)
(* Name matching over all short names: one distribution with one           *)
(* requirement string, every query and every requirement name up to a      *)
(* length, and the operator run on them.                                   *)
(***************************************************************************)

\* The longest query typed and the longest requirement string installed.
MaxQueryLen == 3
MaxReqNameLen == 3

NameAlphabet  == {"a", "A", "-", "_"}
QueryAlphabet == NameAlphabet \cup {" "}

\* The strings over an alphabet up to a length.
Strings(alphabet, n) == UNION { [1..k -> alphabet] : k \in 0..n }

InitNames ==
    /\ PACKAGING_LIB_AVAILABLE = TRUE
    /\ installed \in { << Dist(<< "d", "e", "p" >>, << r >>) >> :
                          r \in Strings(NameAlphabet, MaxReqNameLen) }
    /\ target_package \in Strings(QueryAlphabet, MaxQueryLen)
    /\ target_version = << >>
    /\ enable_version_search = FALSE
    /\ results = << >>
    /\ last_search_was_empty = FALSE
    /\ returned = "NONE"
    /\ reported = "NONE"
    /\ raised = "NONE"
    /\ prev_results = << >>
    /\ prev_empty = FALSE

NextNames == Execute

SpecNames == InitNames /\ [][NextNames]_vars

(***************************************************************************)
(* Properties                                                              *)
(***************************************************************************)

\* The operator has just been invoked on the search state as it stands.
Called == returned # "NONE"

\* A string that is empty or holds only whitespace.
Blank(s) == \A i \in 1..Len(s) : s[i] = " "

\* C1: find with an empty or whitespace-only package name is cancelled with
\* a warning-level report and leaves the result list and the empty-result
\* flag as they were before the call.
C1_EmptyQueryCancelled ==
    (Called /\ Blank(target_package)) =>
        /\ returned = "CANCELLED"
        /\ reported = "WARNING"
        /\ results = prev_results
        /\ last_search_was_empty = prev_empty

\* A whitespace-only name was refused while earlier results were on display.
C1_Witness ==
    /\ returned = "CANCELLED"
    /\ target_package = << " " >>
    /\ prev_results # << >>
    /\ results = prev_results

\* C3: a scan that stops with an unhandled exception leaves the visible
\* result list as it was before the call (results are replaced only by a
\* scan that runs to its end).
C3_FailedScanKeepsResults ==
    returned = "RAISED" => results = prev_results

\* C2: find with a non-empty package name, version search enabled and a
\* non-empty version string that does not parse as a version is cancelled
\* with an error-level report and leaves the result list and the
\* empty-result flag as they were (calls in which reading the environment
\* fails are left aside).
C2_InvalidVersionCancelled ==
    (/\ Called
     /\ raised # "MetadataError"
     /\ ~Blank(target_package)
     /\ enable_version_search
     /\ ~Blank(target_version)
     /\ Version(target_version) = << >>) =>
        /\ returned = "CANCELLED"
        /\ reported = "ERROR"
        /\ results = prev_results
        /\ last_search_was_empty = prev_empty

\* C10: with the packaging library absent, a version-filtered query (version
\* search enabled, non-empty version) is rejected with an error-level report
\* and leaves the result list and the empty-result flag as they were (calls
\* in which reading the environment fails are left aside).
C10_NoLibraryRejectsVersionQuery ==
    (/\ Called
     /\ raised # "MetadataError"
     /\ ~PACKAGING_LIB_AVAILABLE
     /\ ~Blank(target_package)
     /\ enable_version_search
     /\ ~Blank(target_version)) =>
        /\ returned = "CANCELLED"
        /\ reported = "ERROR"
        /\ results = prev_results
        /\ last_search_was_empty = prev_empty

\* Two names denote the same package: equal once case is folded and "-" and
\* "_" are identified.
FoldChar(c) == IF c \in {"-", "_"} THEN "_" ELSE LowerChar[c]

SameLogicalName(q, r) ==
    /\ Len(q) = Len(r)
    /\ \A i \in 1..Len(q) : FoldChar(q[i]) = FoldChar(r[i])

\* The positions << i, j >> of the requirement strings of the environment.
Positions ==
    UNION { { << i, j >> : j \in 1..Len(installed[i].requires) } :
            i \in 1..Len(installed) }

ReqAt(p) == Requirement(installed[p[1]].requires[p[2]])

\* The requirement string at p parses and names the queried package.
OnTarget(p) ==
    /\ ReqAt(p) # << >>
    /\ SameLogicalName(Strip(target_package), ReqAt(p)[1].name)

\* The query carries a version to filter by.
VersionConsulted == enable_version_search /\ ~Blank(target_version)

\* The requirement strings a search for the current query has to report.
Selected ==
    { p \in Positions :
        /\ OnTarget(p)
        /\ VersionConsulted =>
              Contains(ReqAt(p)[1].specs, Version(target_version)[1], TRUE) }

\* The result entry a selected requirement string stands for.
EntryOf(p) == ResultItem(installed[p[1]].name, SpecifierText(ReqAt(p)[1].specs))

CountIn(seq, x) == Cardinality({ k \in 1..Len(seq) : seq[k] = x })

C5_NameMatchingFolds ==
    (returned = "FINISHED" /\ ~VersionConsulted) =>
        \A i \in 1..Len(installed) :
            (\E k \in 1..Len(results) : results[k].name = installed[i].name)
            <=> (\E j \in 1..Len(installed[i].requires) : OnTarget(<< i, j >>))

\* The query "A-a" found the distribution whose requirement is spelled "a_A".
C5_Witness ==
    /\ returned = "FINISHED"
    /\ target_package = << "A", "-", "a" >>
    /\ Len(installed) = 1
    /\ installed[1].requires = << << "a", "_", "A" >> >>
    /\ results = << ResultItem(installed[1].name, AnyText) >>

\* C6: after a search that finished, the result list holds one entry for
\* each requirement on the target when no version is consulted (version
\* search off or version empty), one entry for each requirement on the target
\* whose specifier contains the version, pre-releases allowed, when it is
\* consulted, and nothing else.
C6_VersionFilter ==
    returned = "FINISHED" =>
        /\ Len(results) = Cardinality(Selected)
        /\ \A p \in Selected :
              CountIn(results, EntryOf(p))
                = Cardinality({ q \in Selected : EntryOf(q) = EntryOf(p) })

\* A search for the pre-release 2a1 kept a requirement and dropped another.
C6_Witness ==
    /\ returned = "FINISHED"
    /\ VersionConsulted
    /\ Version(target_version) # << >>
    /\ Version(target_version)[1].pre # << >>
    /\ Selected # {}
    /\ \E p \in Positions : OnTarget(p) /\ p \notin Selected

\* The environment holds a requirement string that does not parse.
HasMalformed == \E p \in Positions : ReqAt(p) = << >>

\* C7: in an environment with a malformed requirement string, find raises
\* only when reading the environment fails or the packaging library is
\* missing, and a search that finished reports every matching requirement,
\* those after the malformed string included.
C7_MalformedSkipped ==
    HasMalformed =>
        /\ returned = "RAISED" =>
              \/ raised = "MetadataError"
              \/ raised = "NameError" /\ ~PACKAGING_LIB_AVAILABLE
        /\ (Called /\ PACKAGING_LIB_AVAILABLE /\ raised = "NONE"
                /\ returned # "CANCELLED") => returned = "FINISHED"
        /\ returned = "FINISHED" =>
              \A p \in Selected : \E k \in 1..Len(results) : results[k] = EntryOf(p)

\* The requirement that follows "!bad" in beta's metadata was reported.
C7_Witness ==
    /\ returned = "FINISHED"
    /\ \E p \in Selected :
          /\ \E q \in Positions : q[1] = p[1] /\ q[2] < p[2] /\ ReqAt(q) = << >>
          /\ \E k \in 1..Len(results) : results[k] = EntryOf(p)

\* (name, specifier) tuples in ascending lexicographic order.
LexLE(a, b) ==
    \/ a = b
    \/ StrLess(a.name, b.name)
    \/ a.name = b.name /\ StrLess(a.specifier, b.specifier)

Ordered == \A i, j \in 1..Len(results) : i < j => LexLE(results[i], results[j])

\* An unfiltered search for my_package over zeta and alpha, in either order.
ExampleCase ==
    /\ returned = "FINISHED"
    /\ ~VersionConsulted
    /\ SameLogicalName(Strip(target_package), << "m", "y", "_", "p", "a", "c", "k", "a", "g", "e" >>)
    /\ { installed[i] : i \in 1..Len(installed) } = { Zeta, Alpha }

\* C8 as stated: the list is in ascending order of (name, specifier) and the
\* example comes out as (alpha, any), (alpha, >=1.0), (zeta, any).
C8_OrderedAsStated ==
    /\ Ordered
    /\ ExampleCase =>
          results = << ResultItem(<< "a", "l", "p", "h", "a" >>, AnyText),
                       ResultItem(<< "a", "l", "p", "h", "a" >>, << ">", "=", "1", ".", "0" >>),
                       ResultItem(<< "z", "e", "t", "a" >>, AnyText) >>

\* C8 amended: the list is in ascending order of (name, specifier) whatever
\* the enumeration order, and the example comes out as
\* (alpha, >=1.0), (alpha, any), (zeta, any).
C8_Ordered ==
    /\ Ordered
    /\ ExampleCase =>
          results = << ResultItem(<< "a", "l", "p", "h", "a" >>, << ">", "=", "1", ".", "0" >>),
                       ResultItem(<< "a", "l", "p", "h", "a" >>, AnyText),
                       ResultItem(<< "z", "e", "t", "a" >>, AnyText) >>

\* zeta is enumerated before alpha and still comes last.
C8_Witness ==
    /\ ExampleCase
    /\ installed = << Zeta, Alpha >>
    /\ Len(results) = 3

\* What a search of the current query builds starting from nothing.
FreshSearch ==
    Sorted(ScanDists(installed, NormalizedTarget(TargetPkg(target_package)),
                     TargetVersionObj(enable_version_search,
                                      TargetVerStr(target_version),
                                      PACKAGING_LIB_AVAILABLE)))

\* C9: after a search that finished, the list and the flag are what the query
\* and the environment alone determine, whatever the list held before (so a
\* repeated search leaves them as they are).
C9_ReplacedWholesale ==
    returned = "FINISHED" =>
        /\ results = FreshSearch
        /\ last_search_was_empty = (FreshSearch = << >>)

\* A search replaced a different, non-empty list of an earlier search.
C9_Witness ==
    /\ returned = "FINISHED"
    /\ prev_results # << >>
    /\ results # << >>
    /\ results # prev_results

====
